---- MODULE Spec2Model ----
(***************************************************************************)
(* Model of src/src/scrape.py: make_url, load_elements, get_search_jobs    *)
(* and get_job_data.  A Python str is a sequence of characters; a          *)
(* character is a one-token TLA+ string, and a run of characters that      *)
(* holds no separator may be written as one token ("Acme Co").             *)
(***************************************************************************)
EXTENDS Integers, Sequences, FiniteSets, TLC

\* ---------------------------------------------------------------- bounds
MaxClicks == 2      \* largest `clicks` argument of load_elements
MaxPages  == 2      \* further result pages the site can still reveal
MaxBatch  == 2      \* listing cards one expansion can add
MaxFields == 8      \* most lines in the text of a generated listing card
MaxElems  == 3      \* most listing cards handed to get_search_jobs
MaxTagLen == 2      \* most characters in the text of a tag element
MaxTags   == 3      \* most tag elements on a detail page
MaxTokLen == 1      \* most characters in a country or tag token
MaxList   == 2      \* most tokens in the countries or the tags list
MaxDays   == 14     \* largest posted_since

\* ------------------------------------------------------- Python helpers
\* Python's None, where a str is expected: a value no str is equal to
None == <<"<None>">>

\* what an out-of-range subscript gives in place of a str (IndexError)
IndexError == <<"<IndexError>">>

NL == "\n"

RECURSIVE Join(_, _)
\* sep.join(parts)
Join(sep, parts) ==
    IF parts = <<>> THEN <<>>
    ELSE IF Len(parts) = 1 THEN parts[1]
    ELSE parts[1] \o sep \o Join(sep, Tail(parts))

RECURSIVE SplitFrom(_, _, _)
\* str.split(sep) for a one-character sep: cur is the piece being read
SplitFrom(s, sep, cur) ==
    IF s = <<>> THEN <<cur>>
    ELSE IF Head(s) = sep THEN <<cur>> \o SplitFrom(Tail(s), sep, <<>>)
    ELSE SplitFrom(Tail(s), sep, Append(cur, Head(s)))

Split(s, sep) == SplitFrom(s, sep, <<>>)

\* ============================================================ load_elements
VARIABLES
    full_load,      \* argument
    clicks,         \* argument
    sleep_time,     \* argument
    pc,             \* "start" | "loop" | "collect" | "returned" | "raised"
    i,              \* iterations of the bounded for loop begun so far
    pages,          \* result pages the site has not revealed yet
    loaded,         \* listing cards now in the DOM
    result,         \* value returned by load_elements
    attempts,       \* history: lookups of the "show-more" control made
    completed,      \* history: show_more.click() calls that returned
    lastOutcome,    \* history: how the last loop iteration ended
    endLoaded       \* history: cards in the DOM when the loop ended

loadVars == <<full_load, clicks, sleep_time, pc, i, pages, loaded, result,
              attempts, completed, lastOutcome, endLoaded>>

\* ========================================================== get_search_jobs
VARIABLES
    elements,       \* argument: the listing cards, each [text, href]
    jpc,            \* "idle" | "loop" | "returned" | "raised"
    idx,            \* cards the for loop has consumed
    all_outputs,    \* the list being built
    last            \* history: the card of the last iteration and its fate

jobsVars == <<elements, jpc, idx, all_outputs, last>>

\* ============================================================= get_job_data
VARIABLES
    page,           \* the detail page: [has_detail, description, tags]
    dpc,            \* "idle" | "start" | "describe" | "tags" | "returned" | "raised"
    job_description,
    tidx,           \* tag elements the comprehension has consumed
    job_keywords,
    job_data        \* value returned by get_job_data

detailVars == <<page, dpc, job_description, tidx, job_keywords, job_data>>

\* ================================================================= make_url
VARIABLES
    countries,      \* argument
    tags,           \* argument
    posted_since,   \* argument
    upc,            \* "idle" | "start" | "returned"
    url             \* value returned by make_url

urlVars == <<countries, tags, posted_since, upc, url>>

vars == <<loadVars, jobsVars, detailVars, urlVars>>

IdleLoad ==
    /\ full_load = FALSE /\ clicks = 0 /\ sleep_time = 0 /\ pc = "idle"
    /\ i = 0 /\ pages = 0 /\ loaded = 0 /\ result = <<>>
    /\ attempts = 0 /\ completed = 0 /\ lastOutcome = "none" /\ endLoaded = 0

IdleJobs ==
    /\ elements = <<>> /\ jpc = "idle" /\ idx = 0 /\ all_outputs = <<>>
    /\ last = [fate |-> "none"]

IdleDetail ==
    /\ page = [has_detail |-> FALSE, description |-> <<>>, tags |-> <<>>]
    /\ dpc = "idle" /\ job_description = <<>> /\ tidx = 0
    /\ job_keywords = <<>> /\ job_data = [url |-> <<>>]

IdleUrl ==
    /\ countries = <<>> /\ tags = <<>> /\ posted_since = 0 /\ upc = "idle"
    /\ url = <<>>

SleepTimes == {-1, 4}

\* driver.get(url): returns, or raises (navigation or session failure)
GetOutcomes == {"ok", "fault"}

\* WebDriverWait(driver, 5).until(element_to_be_clickable(...)): the control
\* is there only while the site has more pages, and even then the wait can
\* time out
LookupOutcomes(p) == IF p = 0 THEN {"timeout"} ELSE {"found", "timeout"}

\* show_more.click(): returns, or raises (intercepted, stale, session lost)
ClickOutcomes == {"ok", "fault"}

\* time.sleep(sleep_time): raises ValueError for a negative length
SleepOutcome(t) == IF t < 0 THEN "fault" ELSE "ok"

\* the outcomes of one pass through the try body of the expand loop
BodyOutcomes(p, t) ==
    {"timeout"} \cup
    (IF "found" \in LookupOutcomes(p)
     THEN (IF "fault" \in ClickOutcomes THEN {"click_fault"} ELSE {}) \cup
          (IF SleepOutcome(t) = "ok" THEN {"ok"} ELSE {"sleep_fault"})
     ELSE {})

\* the bare `except:` of the expand loop: the outcomes it turns into a break
Caught == {"timeout", "click_fault", "sleep_fault"}

\* driver.find_elements(By.XPATH, ...): the cards in page order
Cards(n) == [k \in 1..n |-> k]

InitLoad ==
    /\ full_load \in BOOLEAN
    /\ clicks \in 0..MaxClicks
    /\ sleep_time \in SleepTimes
    /\ pc = "start"
    /\ i = 0
    /\ pages \in 0..MaxPages
    /\ loaded \in 0..MaxBatch
    /\ result = <<>>
    /\ attempts = 0
    /\ completed = 0
    /\ lastOutcome = "none"
    /\ endLoaded = 0
    /\ IdleJobs /\ IdleDetail /\ IdleUrl

\* line 96
Navigate ==
    /\ pc = "start"
    /\ \E o \in GetOutcomes :
         pc' = IF o = "ok" THEN "loop" ELSE "raised"
    /\ UNCHANGED <<full_load, clicks, sleep_time, i, pages, loaded, result,
                   attempts, completed, lastOutcome, endLoaded>>
    /\ UNCHANGED <<jobsVars, detailVars, urlVars>>

\* one pass through a try body (lines 100-109 and 112-121) with outcome o,
\* the click adding b cards
TryBody(o, b) ==
    /\ attempts' = attempts + 1
    /\ lastOutcome' = o
    /\ IF o \in {"ok", "sleep_fault"}
       THEN /\ completed' = completed + 1
            /\ pages' = pages - 1
            /\ loaded' = loaded + b
       ELSE UNCHANGED <<completed, pages, loaded>>
    /\ IF o \in Caught
       THEN /\ pc' = "collect"
            /\ endLoaded' = loaded'
       ELSE /\ pc' = "loop"
            /\ UNCHANGED endLoaded

\* lines 98-109
ExpandFull ==
    /\ pc = "loop"
    /\ full_load
    /\ \E o \in BodyOutcomes(pages, sleep_time), b \in 0..MaxBatch : TryBody(o, b)
    /\ UNCHANGED <<full_load, clicks, sleep_time, i, result>>
    /\ UNCHANGED <<jobsVars, detailVars, urlVars>>

\* a loop that runs once more than asked
MoreClicksInclusive(n, c) == n <= c

\* range(clicks) still has a value to give
MoreClicks(n, c) == n < c

\* lines 110-121, one iteration of the for loop
ExpandBounded ==
    /\ pc = "loop"
    /\ ~full_load
    /\ MoreClicks(i, clicks)
    /\ i' = i + 1
    /\ \E o \in BodyOutcomes(pages, sleep_time), b \in 0..MaxBatch : TryBody(o, b)
    /\ UNCHANGED <<full_load, clicks, sleep_time, result>>
    /\ UNCHANGED <<jobsVars, detailVars, urlVars>>

\* line 111, range(clicks) exhausted
BoundedDone ==
    /\ pc = "loop"
    /\ ~full_load
    /\ ~MoreClicks(i, clicks)
    /\ pc' = "collect"
    /\ endLoaded' = loaded
    /\ UNCHANGED <<full_load, clicks, sleep_time, i, pages, loaded, result,
                   attempts, completed, lastOutcome>>
    /\ UNCHANGED <<jobsVars, detailVars, urlVars>>

\* lines 123-124
Collect ==
    /\ pc = "collect"
    /\ \E o \in GetOutcomes :
         IF o = "ok"
         THEN pc' = "returned" /\ result' = Cards(loaded)
         ELSE pc' = "raised" /\ UNCHANGED result
    /\ UNCHANGED <<full_load, clicks, sleep_time, i, pages, loaded,
                   attempts, completed, lastOutcome, endLoaded>>
    /\ UNCHANGED <<jobsVars, detailVars, urlVars>>

\* ========================================================== get_search_jobs
\* a card whose text has n lines "f1" .. "fn"
GenericText(n) == Join(<<NL>>, [k \in 1..n |-> <<"f", ToString(k)>>])

JobUrl(k) == <<"https://www.workingnomads.com/jobs/", ToString(k)>>

Example1 == <<"Backend Engineer", NL, "Engineering", NL, "Remote/UK", NL,
              "Full-time", NL, "$80k-$100k", NL, "Acme Co", NL, "2024-01-01">>
Example2 == <<"Data Analyst", NL, "Data", NL, "Remote/USA", NL, "Contract", NL,
              "BetaCorp", NL, "2024-01-02">>
Example3 == <<"OnlyTitle", NL, "OnlyCategory">>

\* the cards get_search_jobs is run on: every line count up to MaxFields,
\* cards whose href is missing or empty, a card of six empty lines, and the
\* three cards of the end-to-end scenario
CardPool ==
    {[text |-> GenericText(n), href |-> JobUrl(n)] : n \in 1..MaxFields}
    \cup {[text |-> GenericText(n), href |-> h] : n \in {6, 7}, h \in {None, <<>>}}
    \cup {[text |-> <<NL, NL, NL, NL, NL>>, href |-> JobUrl(0)]}
    \cup {[text |-> Example1, href |-> JobUrl(101)],
          [text |-> Example2, href |-> JobUrl(102)],
          [text |-> Example3, href |-> JobUrl(103)]}

SeqsUpTo(S, n) == UNION {[1..m -> S] : m \in 0..n}

\* item_metadata[k], k counted from 0
At(item_metadata, k) ==
    IF k < Len(item_metadata) THEN item_metadata[k + 1] ELSE IndexError

\* a threshold one too high: cards of six lines are dropped too
InsufficientBelowSeven(num_fields) == num_fields < 7

\* line 162
Insufficient(num_fields) == num_fields < 6

\* the salary layout taken for seven lines or more
HasSalaryAtLeastSeven(num_fields) == num_fields >= 7

\* the test of lines 170-172
HasSalary(num_fields) == num_fields = 7

\* the salary layout with company and date read one line early
OutputShifted(item_metadata, url_link) ==
    LET num_fields == Len(item_metadata) IN
    [title         |-> At(item_metadata, 0),
     category      |-> At(item_metadata, 1),
     location      |-> At(item_metadata, 2),
     position_type |-> At(item_metadata, 3),
     salary        |-> IF HasSalary(num_fields) THEN At(item_metadata, 4)
                       ELSE <<"Unknown">>,
     company       |-> At(item_metadata, 4),
     date          |-> At(item_metadata, 5),
     url           |-> url_link]

\* no default for a missing salary
OutputNoDefault(item_metadata, url_link) ==
    LET num_fields == Len(item_metadata) IN
    [title         |-> At(item_metadata, 0),
     category      |-> At(item_metadata, 1),
     location      |-> At(item_metadata, 2),
     position_type |-> At(item_metadata, 3),
     salary        |-> At(item_metadata, 4),
     company       |-> IF HasSalary(num_fields) THEN At(item_metadata, 5)
                       ELSE At(item_metadata, 4),
     date          |-> IF HasSalary(num_fields) THEN At(item_metadata, 6)
                       ELSE At(item_metadata, 5),
     url           |-> url_link]

\* lines 166-184
Output(item_metadata, url_link) ==
    LET num_fields == Len(item_metadata) IN
    [title         |-> At(item_metadata, 0),
     category      |-> At(item_metadata, 1),
     location      |-> At(item_metadata, 2),
     position_type |-> At(item_metadata, 3),
     salary        |-> IF HasSalary(num_fields) THEN At(item_metadata, 4)
                       ELSE <<"Unknown">>,
     company       |-> IF HasSalary(num_fields) THEN At(item_metadata, 5)
                       ELSE At(item_metadata, 4),
     date          |-> IF HasSalary(num_fields) THEN At(item_metadata, 6)
                       ELSE At(item_metadata, 5),
     url           |-> url_link]

TextKeys == {"title", "category", "location", "position_type", "salary",
             "company", "date"}

\* a subscript of lines 166-172 was out of range
Raises(output) == \E key \in TextKeys : output[key] = IndexError

InitJobs ==
    /\ elements \in SeqsUpTo(CardPool, MaxElems)
    /\ jpc = "loop"
    /\ idx = 0
    /\ all_outputs = <<>>
    /\ last = [fate |-> "none"]
    /\ IdleLoad /\ IdleDetail /\ IdleUrl

\* lines 157-186, one iteration
ProcessItem ==
    /\ jpc = "loop"
    /\ idx < Len(elements)
    /\ LET item == elements[idx + 1]
           item_metadata == Split(item.text, NL)
           output == Output(item_metadata, item.href)
       IN  /\ idx' = idx + 1
           /\ IF Insufficient(Len(item_metadata))
              THEN /\ last' = [fate |-> "skipped", item |-> item]
                   /\ UNCHANGED <<jpc, all_outputs>>
              ELSE IF Raises(output)
              THEN /\ last' = [fate |-> "raised", item |-> item]
                   /\ jpc' = "raised"
                   /\ UNCHANGED all_outputs
              ELSE /\ last' = [fate |-> "emitted", item |-> item,
                               output |-> output]
                   /\ all_outputs' = Append(all_outputs, output)
                   /\ UNCHANGED jpc
    /\ UNCHANGED elements
    /\ UNCHANGED <<loadVars, detailVars, urlVars>>

\* line 188
ReturnOutputs ==
    /\ jpc = "loop"
    /\ idx = Len(elements)
    /\ jpc' = "returned"
    /\ UNCHANGED <<elements, idx, all_outputs, last>>
    /\ UNCHANGED <<loadVars, detailVars, urlVars>>

NextJobs == ProcessItem \/ ReturnOutputs

SpecJobs == InitJobs /\ [][NextJobs]_vars

\* ----------------------------------------- properties of get_search_jobs
\* the lines of a text, read off the positions of its line breaks
Breaks(text) == {k \in 1..Len(text) : text[k] = NL}

NumLines(text) == Cardinality(Breaks(text)) + 1

\* where line k ends: the k-th line break, or the end of the text
LineEnd(text, k) ==
    IF k = 0 THEN 0
    ELSE IF k = NumLines(text) THEN Len(text) + 1
    ELSE CHOOSE p \in Breaks(text) :
             Cardinality({q \in Breaks(text) : q <= p}) = k

Line(text, k) == SubSeq(text, LineEnd(text, k - 1) + 1, LineEnd(text, k) - 1)

Processed == last.fate # "none"

\* C4: a card whose text has exactly 7 lines f1..f7 is emitted as the record
\* title=f1, category=f2, location=f3, position_type=f4, salary=f5,
\* company=f6, date=f7, appended to the output.
SevenFieldsMapped ==
    (Processed /\ NumLines(last.item.text) = 7) =>
        /\ last.fate = "emitted"
        /\ all_outputs # <<>>
        /\ all_outputs[Len(all_outputs)] = last.output
        /\ last.output.title = Line(last.item.text, 1)
        /\ last.output.category = Line(last.item.text, 2)
        /\ last.output.location = Line(last.item.text, 3)
        /\ last.output.position_type = Line(last.item.text, 4)
        /\ last.output.salary = Line(last.item.text, 5)
        /\ last.output.company = Line(last.item.text, 6)
        /\ last.output.date = Line(last.item.text, 7)

SevenFieldsSeen ==
    /\ Processed
    /\ last.item.text = Example1
    /\ last.fate = "emitted"
    /\ last.output.salary = <<"$80k-$100k">>

\* C5: a card whose text has exactly 6 lines f1..f6 is emitted with salary
\* "Unknown" and title=f1, category=f2, location=f3, position_type=f4,
\* company=f5, date=f6.
SixFieldsMapped ==
    (Processed /\ NumLines(last.item.text) = 6) =>
        /\ last.fate = "emitted"
        /\ all_outputs # <<>>
        /\ all_outputs[Len(all_outputs)] = last.output
        /\ last.output.title = Line(last.item.text, 1)
        /\ last.output.category = Line(last.item.text, 2)
        /\ last.output.location = Line(last.item.text, 3)
        /\ last.output.position_type = Line(last.item.text, 4)
        /\ last.output.salary = <<"Unknown">>
        /\ last.output.company = Line(last.item.text, 5)
        /\ last.output.date = Line(last.item.text, 6)

SixFieldsSeen ==
    /\ Processed
    /\ last.item.text = Example2
    /\ last.fate = "emitted"
    /\ last.output.company = <<"BetaCorp">>

KeptSoFar ==
    SelectSeq(SubSeq(elements, 1, idx), LAMBDA e : NumLines(e.text) >= 6)

\* C6: get_search_jobs never raises, emits nothing for a card of fewer than
\* 6 lines and goes on with the next card; its output is one record per card
\* of at least 6 lines, in input order; the cards of 7, 6 and 2 lines of the
\* end-to-end scenario give exactly the two records the scenario names.
ShortCardsDropped ==
    /\ jpc # "raised"
    /\ Processed => (last.fate = "skipped" <=> NumLines(last.item.text) < 6)
    /\ (Processed /\ NumLines(last.item.text) < 6 /\ idx < Len(elements))
           => jpc = "loop"
    /\ Len(all_outputs) = Len(KeptSoFar)
    /\ \A k \in 1..Len(all_outputs) :
           /\ all_outputs[k].title = Line(KeptSoFar[k].text, 1)
           /\ all_outputs[k].url = KeptSoFar[k].href
    /\ (jpc = "returned" /\ [k \in 1..Len(elements) |-> elements[k].text]
                              = <<Example1, Example2, Example3>>)
           => /\ Len(all_outputs) = 2
              /\ all_outputs[1].salary = <<"$80k-$100k">>
              /\ all_outputs[1].company = <<"Acme Co">>
              /\ all_outputs[2].salary = <<"Unknown">>
              /\ all_outputs[2].company = <<"BetaCorp">>

ScenarioReturned ==
    /\ jpc = "returned"
    /\ [k \in 1..Len(elements) |-> elements[k].text]
           = <<Example1, Example2, Example3>>
    /\ last.fate = "skipped"
    /\ Len(all_outputs) = 2

\* C7: every record of the output has a non-empty url, also for a card whose
\* href attribute is absent or empty.
UrlNonEmpty ==
    \A k \in 1..Len(all_outputs) : all_outputs[k].url \notin {None, <<>>}

\* C10: a card whose text has more than 7 lines is emitted laid out like a
\* card of 6 lines: salary "Unknown", company the 5th line, date the 6th,
\* the lines after the 6th ignored.
LongCardsUseSixLayout ==
    (Processed /\ NumLines(last.item.text) > 7) =>
        /\ jpc # "raised"
        /\ last.fate = "emitted"
        /\ all_outputs # <<>>
        /\ all_outputs[Len(all_outputs)] = last.output
        /\ last.output.title = Line(last.item.text, 1)
        /\ last.output.category = Line(last.item.text, 2)
        /\ last.output.location = Line(last.item.text, 3)
        /\ last.output.position_type = Line(last.item.text, 4)
        /\ last.output.salary = <<"Unknown">>
        /\ last.output.company = Line(last.item.text, 5)
        /\ last.output.date = Line(last.item.text, 6)

LongCardSeen ==
    /\ Processed
    /\ NumLines(last.item.text) = 8
    /\ last.fate = "emitted"
    /\ last.output.salary = <<"Unknown">>
    /\ last.output.date = <<"f", "6">>

\* ============================================================= get_job_data
\* the characters str.strip() removes
Whitespace == {" ", "\t", NL, "\r"}

RECURSIVE LStrip(_)
LStrip(s) ==
    IF s # <<>> /\ Head(s) \in Whitespace THEN LStrip(Tail(s)) ELSE s

RECURSIVE RStrip(_)
RStrip(s) ==
    IF s # <<>> /\ s[Len(s)] \in Whitespace
    THEN RStrip(SubSeq(s, 1, Len(s) - 1)) ELSE s

\* str.strip()
Strip(s) == RStrip(LStrip(s))

\* a filter that forgets to trim
KeptUntrimmed(text) == text # <<>>

\* the filter of line 217
Kept(text) == Strip(text) # <<>>

TagChars == {" ", "a"}

TagTexts == SeqsUpTo(TagChars, MaxTagLen)

DetailUrl == JobUrl(7)

InitDetail ==
    /\ page \in [has_detail : BOOLEAN, description : {<<"We are hiring">>},
                 tags : SeqsUpTo(TagTexts, MaxTags)]
    /\ dpc = "start"
    /\ job_description = <<>>
    /\ tidx = 0
    /\ job_keywords = <<>>
    /\ job_data = [url |-> <<>>]
    /\ IdleLoad /\ IdleJobs /\ IdleUrl

\* line 213
NavigateDetail ==
    /\ dpc = "start"
    /\ \E o \in GetOutcomes :
         dpc' = IF o = "ok" THEN "describe" ELSE "raised"
    /\ UNCHANGED <<page, job_description, tidx, job_keywords, job_data>>
    /\ UNCHANGED <<loadVars, jobsVars, urlVars>>

\* line 215: find_element raises NoSuchElementException when nothing matches
FindDescription ==
    /\ dpc = "describe"
    /\ IF page.has_detail
       THEN dpc' = "tags" /\ job_description' = page.description
       ELSE dpc' = "raised" /\ UNCHANGED job_description
    /\ UNCHANGED <<page, tidx, job_keywords, job_data>>
    /\ UNCHANGED <<loadVars, jobsVars, urlVars>>

\* lines 216-218, one element of the comprehension
CollectTag ==
    /\ dpc = "tags"
    /\ tidx < Len(page.tags)
    /\ LET text == page.tags[tidx + 1]
       IN  job_keywords' = IF Kept(text) THEN Append(job_keywords, text)
                           ELSE job_keywords
    /\ tidx' = tidx + 1
    /\ UNCHANGED <<page, dpc, job_description, job_data>>
    /\ UNCHANGED <<loadVars, jobsVars, urlVars>>

\* lines 220-225
ReturnJobData ==
    /\ dpc = "tags"
    /\ tidx = Len(page.tags)
    /\ job_data' = [url |-> DetailUrl, description |-> job_description,
                    keywords |-> job_keywords]
    /\ dpc' = "returned"
    /\ UNCHANGED <<page, job_description, tidx, job_keywords>>
    /\ UNCHANGED <<loadVars, jobsVars, urlVars>>

NextDetail == NavigateDetail \/ FindDescription \/ CollectTag \/ ReturnJobData

SpecDetail == InitDetail /\ [][NextDetail]_vars

\* ------------------------------------------- properties of get_job_data
\* a text that is more than whitespace
NonBlank(text) == \E k \in 1..Len(text) : text[k] \notin Whitespace

\* C8: the keywords are exactly the texts of the tag elements whose trimmed
\* text is not empty, untrimmed, in page order and with duplicates kept.
KeywordsAreNonBlankTags ==
    /\ dpc \in {"tags", "returned"} =>
           job_keywords = SelectSeq(SubSeq(page.tags, 1, tidx), NonBlank)
    /\ dpc = "returned" =>
           /\ job_data.keywords = SelectSeq(page.tags, NonBlank)
           /\ \A k \in 1..Len(job_data.keywords) :
                  Strip(job_data.keywords[k]) # <<>>

KeywordsSeen ==
    /\ dpc = "returned"
    /\ page.tags = << <<"a", " ">>, <<" ">>, <<"a", " ">> >>
    /\ job_data.keywords = << <<"a", " ">>, <<"a", " ">> >>

\* ================================================================= make_url
Digit(d) == <<"0", "1", "2", "3", "4", "5", "6", "7", "8", "9">>[d + 1]

RECURSIVE NatToStr(_)
NatToStr(n) ==
    IF n < 10 THEN <<Digit(n)>> ELSE Append(NatToStr(n \div 10), Digit(n % 10))

\* how an f-string renders an int
IntToStr(n) == IF n < 0 THEN <<"-">> \o NatToStr(-n) ELSE NatToStr(n)

\* the filters put in each other's place
make_url_swapped(countries_, tags_, posted_since_) ==
    LET countries_str == Join(<<",">>, countries_)
        tags_str == Join(<<",">>, tags_)
    IN  <<"https://www.workingnomads.com/jobs", "?", "tag", "=">>
            \o countries_str \o <<"&", "location", "=">>
            \o tags_str \o <<"&", "postedDate", "=">>
            \o IntToStr(posted_since_)

\* lines 51-54
make_url(countries_, tags_, posted_since_) ==
    LET countries_str == Join(<<",">>, countries_)
        tags_str == Join(<<",">>, tags_)
    IN  <<"https://www.workingnomads.com/jobs", "?", "tag", "=">>
            \o tags_str \o <<"&", "location", "=">>
            \o countries_str \o <<"&", "postedDate", "=">>
            \o IntToStr(posted_since_)

\* the characters of a token: a letter, and a character a URL reads as a
\* separator
TagTokChars == {"a", "&"}

CountryTokChars == {"b", "#"}

InitUrl ==
    /\ countries \in SeqsUpTo(SeqsUpTo(CountryTokChars, MaxTokLen), MaxList)
    /\ tags \in SeqsUpTo(SeqsUpTo(TagTokChars, MaxTokLen), MaxList)
    /\ posted_since \in {-1, 0, MaxDays}
    /\ upc = "start"
    /\ url = <<>>
    /\ IdleLoad /\ IdleJobs /\ IdleDetail

\* lines 28-54
MakeUrl ==
    /\ upc = "start"
    /\ url' = make_url(countries, tags, posted_since)
    /\ upc' = "returned"
    /\ UNCHANGED <<countries, tags, posted_since>>
    /\ UNCHANGED <<loadVars, jobsVars, detailVars>>

NextUrl == MakeUrl

SpecUrl == InitUrl /\ [][NextUrl]_vars

\* ----------------------------------------------- properties of make_url
\* How a URL is read (RFC 3986): the query runs from the first "?" to the
\* first "#"; "&" separates its parameters; the first "=" of a parameter
\* separates its name from its value, which is taken undecoded.
RECURSIVE UpTo(_, _)
UpTo(s, c) ==
    IF s = <<>> \/ Head(s) = c THEN <<>> ELSE <<Head(s)>> \o UpTo(Tail(s), c)

RECURSIVE After(_, _)
After(s, c) ==
    IF s = <<>> THEN <<>> ELSE IF Head(s) = c THEN Tail(s) ELSE After(Tail(s), c)

Query(u) == UpTo(After(u, "?"), "#")

Params(u) ==
    LET ps == Split(Query(u), "&")
    IN  [k \in 1..Len(ps) |-> [name |-> UpTo(ps[k], "="),
                               value |-> After(ps[k], "=")]]

ParamNames(u) == [k \in 1..Len(Params(u)) |-> Params(u)[k].name]

\* the value of the first parameter of that name, None when there is none
QueryValue(u, name) ==
    LET ps == Params(u)
        hits == {k \in 1..Len(ps) : ps[k].name = <<name>>}
    IN  IF hits = {} THEN None
        ELSE ps[CHOOSE k \in hits : \A h \in hits : k <= h].value

\* the three filters are the three parameters of the URL, each once, and
\* their values are the comma-joined tags, the comma-joined countries and
\* the day count in decimal
CarriesFilters ==
    /\ ParamNames(url) = << <<"tag">>, <<"location">>, <<"postedDate">> >>
    /\ QueryValue(url, "tag") = Join(<<",">>, tags)
    /\ QueryValue(url, "location") = Join(<<",">>, countries)
    /\ QueryValue(url, "postedDate") = IntToStr(posted_since)

HasSeparator(token) == \E k \in 1..Len(token) : token[k] \in {"&", "#"}

Plain(tokens) == \A k \in 1..Len(tokens) : ~HasSeparator(tokens[k])

\* C9 as stated: for all inputs the URL carries the comma-joined tags, the
\* comma-joined locations and the day count as its query values, each token
\* once and in input order.
UrlCarriesFilters == upc = "returned" => CarriesFilters

\* C9 amended: the same, for inputs none of whose tokens holds "&" or "#".
PlainUrlCarriesFilters ==
    (upc = "returned" /\ Plain(tags) /\ Plain(countries)) => CarriesFilters

PlainUrlSeen ==
    /\ upc = "returned"
    /\ tags = << <<"a">>, <<>> >>
    /\ countries = << <<>>, <<"b">> >>
    /\ posted_since = MaxDays
    /\ QueryValue(url, "tag") = <<"a", ",">>
    /\ QueryValue(url, "location") = <<",", "b">>

\* ------------------------------------------ properties of load_elements
\* C1: with full_load=False and clicks=N, load_elements looks the control up
\* at most N times, leaves the loop at the first lookup that finds no
\* clickable control (fewer than N clicks then completed), and on either
\* path returns the cards in the page when the loop ended.
BoundedLoadStops ==
    (pc # "idle" /\ ~full_load) =>
        /\ attempts <= clicks
        /\ completed <= attempts
        /\ lastOutcome \in {"timeout", "click_fault"} =>
               (pc # "loop" /\ completed < clicks)
        /\ pc = "returned" => (result = Cards(endLoaded) /\ endLoaded = loaded)

BoundedEarlyExitSeen ==
    /\ ~full_load
    /\ pc = "returned"
    /\ clicks = 2
    /\ attempts = 2
    /\ completed = 1
    /\ lastOutcome = "timeout"
    /\ Len(result) = 2

\* C2: with full_load=True the loop ends if and only if the control cannot
\* be found or clicked within the timeout; a loop that has ended has ended
\* on such a lookup.
ExhaustiveEndsOnAbsenceOnly ==
    (full_load /\ pc \in {"collect", "returned"}) =>
        lastOutcome \in {"timeout", "click_fault"}

\* C3: a fault while clicking or sleeping inside the expand loop reaches the
\* caller.
LoopFaultsPropagate ==
    lastOutcome \in {"click_fault", "sleep_fault"} => pc = "raised"

Init == InitLoad

Next == Navigate \/ ExpandFull \/ ExpandBounded \/ BoundedDone \/ Collect

Spec == Init /\ [][Next]_vars
====
